---------------------------- MODULE Spec2Model ----------------------------
(***************************************************************************)
(* PADS: SVG.py (the SVG emitter) and Util.py (merge of sorted streams).   *)
(*                                                                         *)
(* A Python string is a sequence of tokens; a token is a TLA+ string that  *)
(* stands for the characters it holds ("<", "0", "rect x=\"").  Joining    *)
(* strings is \o.  Coordinates are written one character per token, so     *)
(* that rstrip and the parse of a coordinate work on characters.           *)
(*                                                                         *)
(* A float is a fixed-point number: an integer count of units of           *)
(* 10^-(Precision+1), one decimal digit more than "%.4f" keeps.  A complex *)
(* number is a pair <<real, imag>> of such numbers.                        *)
(***************************************************************************)
EXTENDS Integers, Sequences, FiniteSets, TLC

VARIABLES
    self,     \* the SVG object: [stream, prefix, indentation, nesting]
    log,      \* history: one record per call of SVG.element, in order
    call,     \* history: the last method called on the object, with its points
    ncalls,   \* history: number of methods called since construction
    status,   \* "open"; after close(): "closed" (returned) or "raised"
    rnd,      \* how the binary double of the formatted value lies to its decimal
    cx, cs,   \* _coord under test: its argument and its result
    mg        \* the merge generator's frame, see merge below

vars == <<self, log, call, ncalls, status, rnd, cx, cs, mg>>

-----------------------------------------------------------------------------
(* Bounds of the model.                                                    *)

MaxCalls == 3          \* methods called on a document before close()
MaxDraw == 2           \* the same, where every method is called
MaxIndent == 1         \* the constructor's indentation argument
MaxMantissa == 3       \* integer parts m * 10^k of a coordinate under test
MaxExp == 2
MaxStreams == 2        \* merge: number of input streams
MaxStreamLen == 2      \* merge: items per input stream
MaxItem == 2           \* merge: items are 0..MaxItem

-----------------------------------------------------------------------------
(* Numbers.                                                                *)

Precision == 4                 \* "%.4f"
Unit == 10^(Precision + 1)     \* fixed-point units in 1.0

abs(x) == IF x < 0 THEN -x ELSE x
min(x, y) == IF x <= y THEN x ELSE y

real(p) == p[1]
imag(p) == p[2]
csub(p, q) == <<p[1] - q[1], p[2] - q[2]>>

-----------------------------------------------------------------------------
(* Strings.                                                                *)

DigitChars == <<"0", "1", "2", "3", "4", "5", "6", "7", "8", "9">>

RECURSIVE Digits(_)
\* "%d" of a natural number
Digits(n) ==
    IF n < 10 THEN <<DigitChars[n + 1]>>
    ELSE Digits(n \div 10) \o <<DigitChars[(n % 10) + 1]>>

RECURSIVE FracDigits(_, _)
\* the k low decimal digits of n, zero padded
FracDigits(n, k) ==
    IF k = 0 THEN <<>>
    ELSE FracDigits(n \div 10, k - 1) \o <<DigitChars[(n % 10) + 1]>>

RECURSIVE rstrip(_, _)
\* str.rstrip(chars): drop every trailing character that is in chars
rstrip(s, chars) ==
    IF s # <<>> /\ s[Len(s)] \in chars
    THEN rstrip(SubSeq(s, 1, Len(s) - 1), chars)
    ELSE s

\* "%.4f" % x: correctly rounded to Precision decimals.  A value halfway
\* between two candidates is a tie only if its double is exact ("even": the
\* C library rounds half to even); otherwise the double lies above ("up") or
\* below ("down") the decimal and decides the digit.
Fixed4(x) ==
    LET a == abs(x)
        q0 == a \div 10
        r == a % 10
        up == r > 5 \/ (r = 5 /\ (rnd = "up" \/ (rnd = "even" /\ q0 % 2 = 1)))
        q == IF up THEN q0 + 1 ELSE q0
    IN  (IF x < 0 THEN <<"-">> ELSE <<>>)
            \o Digits(q \div 10^Precision) \o <<".">>
            \o FracDigits(q % 10^Precision, Precision)

stripped_any(x) == rstrip(Fixed4(x), {"0", "."})

\* def _coord(x)
_coord(x) == rstrip(rstrip(Fixed4(x), {"0"}), {"."})


-----------------------------------------------------------------------------
(* Style dictionaries: a dict is the sequence of its <<key, value>> items  *)
(* in insertion order, keys distinct.                                      *)

keys(d) == {d[i][1] : i \in 1..Len(d)}

\* d[k] = v
setitem(d, k, v) ==
    IF k \in keys(d)
    THEN [i \in 1..Len(d) |-> IF d[i][1] = k THEN <<k, v>> ELSE d[i]]
    ELSE Append(d, <<k, v>>)

setdefault(d, k, v) == IF k \in keys(d) THEN d ELSE Append(d, <<k, v>>)

RECURSIVE update_keep(_, _)
update_keep(d, more) ==
    IF more = <<>> THEN d
    ELSE update_keep(setdefault(d, more[1][1], more[1][2]), Tail(more))

RECURSIVE update(_, _)
\* d.update(more)
update(d, more) ==
    IF more = <<>> THEN d
    ELSE update(setitem(d, more[1][1], more[1][2]), Tail(more))

RECURSIVE StyleItems(_, _)
\* the loop of element over the merged style: k:v, then "; " before each next
StyleItems(d, second) ==
    IF d = <<>> THEN <<>>
    ELSE (IF second THEN <<"; ">> ELSE <<>>)
            \o <<d[1][1], ":", d[1][2]>> \o StyleItems(Tail(d), TRUE)

-----------------------------------------------------------------------------
(* class SVG                                                               *)

\* " " * n
Spaces(n) == [i \in 1..n |-> " "]

write(s, text) == [s EXCEPT !.stream = Append(@, text)]

nesting_after_open_only(s, delta) == IF delta > 0 THEN s.nesting + delta ELSE s.nesting

\* self.nesting as element leaves it: decremented before a closing tag is
\* written, incremented after an opening tag is
nesting_after(s, delta) == s.nesting + (IF delta < 0 \/ delta > 0 THEN delta ELSE 0)

lead_before_decrement(s, delta, unspaced) ==
    IF delta >= 0 \/ ~unspaced
    THEN Spaces(s.indentation + 2*s.nesting) \o <<"<">>
    ELSE <<"<">>

unspaced_lead(s, delta, unspaced) ==
    LET n == IF delta < 0 THEN s.nesting + delta ELSE s.nesting
    IN  IF ~unspaced THEN Spaces(s.indentation + 2*n) \o <<"<">> ELSE <<"<">>

\* the first pieces of output: the indentation, unless the tag is an unspaced
\* closing tag, and "<"
lead(s, delta, unspaced) ==
    LET n == IF delta < 0 THEN s.nesting + delta ELSE s.nesting
    IN  IF delta >= 0 \/ ~unspaced
        THEN Spaces(s.indentation + 2*n) \o <<"<">>
        ELSE <<"<">>

\* def element(self, e, delta=0, unspaced=False, style={}, **morestyle)
element(s, e, delta, unspaced, style, morestyle) ==
    LET out1 == lead(s, delta, unspaced)
        out2 == IF delta < 0 THEN out1 \o <<"/">> ELSE out1
        out3 == out2 \o s.prefix \o e
        st == update(style, morestyle)
        out4 == IF st # <<>>
                THEN out3 \o <<" style=\"">> \o StyleItems(st, FALSE) \o <<"\"">>
                ELSE out3
        out5 == IF delta > 0 THEN out4
                ELSE IF delta = 0 THEN out4 \o <<"/">> ELSE out4
        out6 == out5 \o <<">">>
        out7 == IF delta <= 0 \/ ~unspaced THEN out6 \o <<"\n">> ELSE out6
    IN  [s EXCEPT !.nesting = nesting_after(s, delta),
                  !.stream = Append(@, out7)]

\* history of the element calls: the tag's name, the call's delta and
\* unspaced, self.nesting when called, and where in the stream it wrote
logged(l, s, name, delta, unspaced) ==
    Append(l, [name |-> name, delta |-> delta, unspaced |-> unspaced,
               depth |-> s.nesting, at |-> Len(s.stream) + 1])

XmlHeader ==
    <<"<?xml version=\"1.0\"?>\n<!DOCTYPE svg PUBLIC \"-//W3C//DTD SVG 1.1//EN\" \n  \"http://www.w3.org/Graphics/SVG/1.1/DTD/svg11.dtd\">\n">>

\* def __init__(self, bbox, stream, standalone=True, prefix=None, indentation=0)
\* prefix is a string (a token sequence), empty for None
__init__(bbox, standalone, prefix, indentation) ==
    LET s0 == [stream |-> IF standalone THEN <<XmlHeader>> ELSE <<>>,
               prefix |-> IF prefix # <<>> THEN prefix \o <<":">> ELSE <<>>,
               indentation |-> indentation,
               nesting |-> 0]
        br == _coord(real(bbox))
        bi == _coord(imag(bbox))
    IN  element(s0,
                <<"svg width=\"">> \o br \o <<"\" height=\"">> \o bi
                    \o <<"\" viewBox=\"0 0 ">> \o br \o <<" ">> \o bi
                    \o <<"\"\n     xmlns=\"http://www.w3.org/2000/svg\" version=\"1.1\"">>,
                1, FALSE, <<>>, <<>>)


\* 'circle cx="%s" cy="%s" r="%s"' % (...)
circle_e(center, radius) ==
    <<"circle cx=\"">> \o _coord(real(center)) \o <<"\" cy=\"">>
        \o _coord(imag(center)) \o <<"\" r=\"">> \o _coord(radius) \o <<"\"">>

\* the body of rectangle up to its call of element: x is written for both the
\* x and the y attribute, y is computed and not used
rectangle_e(p, q) ==
    LET x == min(real(p), real(q))
        y == min(imag(p), imag(q))
        width == abs(real(csub(p, q)))
        height == abs(imag(csub(p, q)))
    IN  <<"rect x=\"">> \o _coord(x) \o <<"\" y=\"">> \o _coord(x)
            \o <<"\" width=\"">> \o _coord(width)
            \o <<"\" height=\"">> \o _coord(height) \o <<"\"">>

RECURSIVE pointlist(_)
\* " ".join(_coord(p.real)+","+_coord(p.imag) for p in points)
pointlist(points) ==
    IF points = <<>> THEN <<>>
    ELSE _coord(real(points[1])) \o <<",">> \o _coord(imag(points[1]))
            \o (IF Len(points) > 1 THEN <<" ">> ELSE <<>>)
            \o pointlist(Tail(points))

\* a / b to the nearest fixed-point unit (b # 0), standing for float division
RoundDiv(a, b) ==
    LET n == IF b < 0 THEN -a ELSE a
        d == abs(b)
    IN  IF n >= 0 THEN (2*n + d) \div (2*d) ELSE -((2*(-n) + d) \div (2*d))

dot(r, s) == real(r)*real(s) + imag(r)*imag(s)

\* e of straincontrol: 4*v00*v11 - v01**2
strain_e(q0, p0, p1, q1) ==
    LET v0 == csub(p1, q0)
        v1 == csub(q1, p0)
    IN  4*dot(v0, v0)*dot(v1, v1) - dot(v0, v1)*dot(v0, v1)

\* def straincontrol(q0,p0,p1,q1): the control points p0, p0+a0*v0/3,
\* p1-a1*v1/3, p1, with a0 = n0/e and a1 = n1/e (e # 0)
straincontrol(q0, p0, p1, q1) ==
    LET v0 == csub(p1, q0)
        v1 == csub(q1, p0)
        d == <<3*(real(p1) - real(p0)), 3*(imag(p1) - imag(p0))>>
        dv0 == dot(d, v0)
        dv1 == dot(d, v1)
        v00 == dot(v0, v0)
        v01 == dot(v0, v1)
        v11 == dot(v1, v1)
        e == 4*v00*v11 - v01*v01
        n0 == 2*dv0*v11 - dv1*v01
        n1 == 2*dv1*v00 - dv0*v01
    IN  <<p0,
          <<real(p0) + RoundDiv(n0*real(v0), 3*e), imag(p0) + RoundDiv(n0*imag(v0), 3*e)>>,
          <<real(p1) - RoundDiv(n1*real(v1), 3*e), imag(p1) - RoundDiv(n1*imag(v1), 3*e)>>,
          p1>>

\* def _point(q): two more items of data
point_data(q) == <<_coord(real(q)), _coord(imag(q))>>

RECURSIVE curve_data(_, _)
\* the loop of polycurve from index i on: _point(b); _point(c); _point(d)
curve_data(points, i) ==
    IF i > Len(points) - 3 THEN <<>>
    ELSE LET c == straincontrol(points[i], points[i+1], points[i+2], points[i+3])
         IN  point_data(c[2]) \o point_data(c[3]) \o point_data(c[4])
                \o curve_data(points, i + 1)

RECURSIVE join(_, _)
\* sep.join(items), each item a string
join(items, sep) ==
    IF items = <<>> THEN <<>>
    ELSE IF Len(items) = 1 THEN items[1]
    ELSE items[1] \o sep \o join(Tail(items), sep)

\* polycurve raises before it writes anything when points[1] does not exist
\* (IndexError) or a straincontrol divides by e = 0 (ZeroDivisionError)
polycurve_raises(points) ==
    \/ Len(points) < 2
    \/ \E i \in 1..(Len(points) - 3) :
            strain_e(points[i], points[i+1], points[i+2], points[i+3]) = 0

\* 'path d="%s"' % ' '.join(data)
polycurve_e(points) ==
    <<"path d=\"">>
        \o join(<<<<"M">>>> \o point_data(points[2]) \o <<<<"C">>>>
                    \o curve_data(points, 1), <<" ">>)
        \o <<"\"">>

\* 'line x1="%s" y1="%s" x2="%s" y2="%s"' % (...)
segment_e(p, q) ==
    <<"line x1=\"">> \o _coord(real(p)) \o <<"\" y1=\"">> \o _coord(imag(p))
        \o <<"\" x2=\"">> \o _coord(real(q)) \o <<"\" y2=\"">> \o _coord(imag(q))
        \o <<"\"">>

\* 'path d="M %s,%s A %s,%s 0 %s 0 %s,%s"' % (...), r a real radius
arc_e(p, q, r, large) ==
    LET l == IF large THEN <<"1">> ELSE <<"0">>
        rr == _coord(abs(r))
    IN  <<"path d=\"M ">> \o _coord(real(p)) \o <<",">> \o _coord(imag(p))
            \o <<" A ">> \o rr \o <<",">> \o rr \o <<" 0 ">> \o l \o <<" 0 ">>
            \o _coord(real(q)) \o <<",">> \o _coord(imag(q)) \o <<"\"">>

\* 'text x="%s" y="%s"' % (...)
text_e(location) ==
    <<"text x=\"">> \o _coord(real(location)) \o <<"\" y=\"">>
        \o _coord(imag(location)) \o <<"\"">>


-----------------------------------------------------------------------------
(* Inputs.                                                                 *)

Origin == <<0, 0>>
Bbox == <<100*Unit, 100*Unit>>
\* the constructor's standalone and prefix: the defaults, and a tag prefix
\* inside a larger XML file
Configs == {<<TRUE, <<>>>>, <<FALSE, <<"s">>>>}
\* (0, 1) and (2.5, 3)
Points == {<<0, Unit>>, <<(5*Unit) \div 2, 3*Unit>>}
Radii == {10*Unit}
\* a curve through two points, and one whose tangent vectors vanish
PointLists ==
    {<<<<0, 0>>, <<10, 0>>, <<20, 10>>, <<30, 10>>>>,
     <<<<0, 0>>, <<10, 0>>, <<0, 0>>, <<10, 0>>>>}
Tags == {<<"a">>}
Deltas == {-1, 0, 1}
NoStyle == <<>>
GroupStyles == {<<>>, <<<<"fill", "red">>>>}

StyleKeys == {"fill", "stroke", "opacity"}
StyleValues == {"red", "blue"}
MaxStyle == 2          \* items of a style dictionary
Dicts ==
    {d \in UNION {[1..n -> StyleKeys \X StyleValues] : n \in 0..MaxStyle} :
        \A i, j \in 1..Len(d) : d[i][1] = d[j][1] => i = j}

-----------------------------------------------------------------------------
(* The methods of a document, one action each.                             *)

CanCall == status = "open" /\ ncalls < MaxCalls

Did(op, p, q, style, morestyle, s2, l2) ==
    /\ self' = s2
    /\ log' = l2
    /\ call' = [op |-> op, p |-> p, q |-> q, style |-> style, morestyle |-> morestyle]
    /\ ncalls' = ncalls + 1
    /\ UNCHANGED <<status, rnd, cx, cs, mg>>

\* a standalone tag: self.element(e, style=style, **morestyle)
Shape(op, name, e, p, q, style, morestyle) ==
    /\ CanCall
    /\ Did(op, p, q, style, morestyle,
           element(self, e, 0, FALSE, style, morestyle),
           logged(log, self, name, 0, FALSE))

Element(e, delta, unspaced, style, morestyle) ==
    /\ CanCall
    /\ Did("element", Origin, Origin, style, morestyle,
           element(self, e, delta, unspaced, style, morestyle),
           logged(log, self, e[1], delta, unspaced))

\* def group(self, style={}, **morestyle)
Group(style, morestyle) ==
    /\ CanCall
    /\ Did("group", Origin, Origin, style, morestyle,
           element(self, <<"g">>, 1, FALSE, style, morestyle),
           logged(log, self, "g", 1, FALSE))

\* def ungroup(self)
Ungroup ==
    /\ CanCall
    /\ Did("ungroup", Origin, Origin, NoStyle, NoStyle,
           element(self, <<"g">>, -1, FALSE, NoStyle, NoStyle),
           logged(log, self, "g", -1, FALSE))

\* def circle(self, center, radius, style={}, **morestyle)
Circle(center, radius, style, morestyle) ==
    Shape("circle", "circle", circle_e(center, radius), center, Origin, style, morestyle)

\* def rectangle(self, p, q, style={}, **morestyle)
Rectangle(p, q, style, morestyle) ==
    Shape("rectangle", "rect", rectangle_e(p, q), p, q, style, morestyle)

\* def polygon(self, points, style={}, **morestyle)
Polygon(points, style, morestyle) ==
    Shape("polygon", "polygon",
          <<"polygon points=\"">> \o pointlist(points) \o <<"\"">>,
          Origin, Origin, style, morestyle)

\* def polyline(self, points, style={}, **morestyle)
Polyline(points, style, morestyle) ==
    Shape("polyline", "polyline",
          <<"polyline points=\"">> \o pointlist(points) \o <<"\"">>,
          Origin, Origin, style, morestyle)

\* def polycurve(self, points, style={}, **morestyle)
Polycurve(points, style, morestyle) ==
    IF polycurve_raises(points)
    THEN CanCall /\ Did("polycurve", Origin, Origin, style, morestyle, self, log)
    ELSE Shape("polycurve", "path", polycurve_e(points), Origin, Origin, style, morestyle)

\* def segment(self, p, q, style={}, **morestyle)
Segment(p, q, style, morestyle) ==
    Shape("segment", "line", segment_e(p, q), p, q, style, morestyle)

\* def arc(self, p, q, r, large=False, style={}, **morestyle)
Arc(p, q, r, large, style, morestyle) ==
    Shape("arc", "path", arc_e(p, q, r, large), p, q, style, morestyle)

Text_unclosed(label, location, style, morestyle) ==
    /\ CanCall
    /\ LET s1 == element(self, text_e(location), 1, TRUE, style, morestyle)
           l1 == logged(log, self, "text", 1, TRUE)
           s2 == write(s1, label)
           s3 == element(s2, <<"text">>, 0, TRUE, NoStyle, NoStyle)
           l3 == logged(l1, s2, "text", 0, TRUE)
       IN  Did("text", location, Origin, style, morestyle, s3, l3)

\* def text(self, label, location, style={}, **morestyle)
Text(label, location, style, morestyle) ==
    /\ CanCall
    /\ LET s1 == element(self, text_e(location), 1, TRUE, style, morestyle)
           l1 == logged(log, self, "text", 1, TRUE)
           s2 == write(s1, label)
           s3 == element(s2, <<"text">>, -1, TRUE, NoStyle, NoStyle)
           l3 == logged(l1, s2, "text", -1, TRUE)
       IN  Did("text", location, Origin, style, morestyle, s3, l3)

raises_if_positive(n) == n > 0

raises_if_negative(n) == n < 0

\* if self.nesting: raise Exception("SVG: Unclosed tags")
close_raises(n) == n # 0

\* def close(self)
Close ==
    /\ status = "open"
    /\ LET s1 == element(self, <<"svg">>, -1, FALSE, NoStyle, NoStyle)
       IN  /\ self' = s1
           /\ log' = logged(log, self, "svg", -1, FALSE)
           /\ status' = IF close_raises(s1.nesting) THEN "raised" ELSE "closed"
    /\ call' = [op |-> "close", p |-> Origin, q |-> Origin,
                style |-> NoStyle, morestyle |-> NoStyle]
    /\ UNCHANGED <<ncalls, rnd, cx, cs, mg>>

-----------------------------------------------------------------------------
(* A document: constructed, drawn on, closed.                              *)

NoCall == [op |-> "__init__", p |-> Origin, q |-> Origin,
           style |-> NoStyle, morestyle |-> NoStyle]

NoMerge == [pc |-> "idle"]

InitDoc ==
    /\ \E cfg \in Configs, indentation \in 0..MaxIndent :
          /\ self = __init__(Bbox, cfg[1], cfg[2], indentation)
          /\ log = <<[name |-> "svg", delta |-> 1, unspaced |-> FALSE, depth |-> 0,
                      at |-> IF cfg[1] THEN 2 ELSE 1]>>
    /\ call = NoCall
    /\ ncalls = 0
    /\ status = "open"

Init ==
    /\ InitDoc
    /\ rnd = "even"
    /\ cx = 0
    /\ cs = <<>>
    /\ mg = NoMerge

\* element, group, ungroup, circle, text and close, in any order
Next ==
    \/ \E e \in Tags, delta \in Deltas, unspaced \in BOOLEAN :
            Element(e, delta, unspaced, NoStyle, NoStyle)
    \/ \E style \in GroupStyles : Group(style, NoStyle)
    \/ Ungroup
    \/ \E c \in {Bbox}, r \in Radii : Circle(c, r, NoStyle, NoStyle)
    \/ \E location \in {Bbox} : Text(<<"label">>, location, NoStyle, NoStyle)
    \/ Close

Spec == Init /\ [][Next]_vars

\* a call in a document on which every method is called
Draw(A) == ncalls < MaxDraw /\ A

\* every method, in any order, on shorter documents
NextDraw ==
    \/ \E e \in Tags, delta \in Deltas, unspaced \in BOOLEAN :
            Draw(Element(e, delta, unspaced, NoStyle, NoStyle))
    \/ \E style \in GroupStyles : Draw(Group(style, NoStyle))
    \/ Draw(Ungroup)
    \/ \E c \in Points, r \in Radii : Draw(Circle(c, r, NoStyle, NoStyle))
    \/ \E p \in Points, q \in Points : Draw(Rectangle(p, q, NoStyle, NoStyle))
    \/ \E points \in PointLists : Draw(Polygon(points, NoStyle, NoStyle))
    \/ \E points \in PointLists : Draw(Polyline(points, NoStyle, NoStyle))
    \/ \E points \in PointLists : Draw(Polycurve(points, NoStyle, NoStyle))
    \/ \E p \in Points, q \in Points : Draw(Segment(p, q, NoStyle, NoStyle))
    \/ \E p \in Points, r \in Radii, large \in BOOLEAN :
            Draw(Arc(p, Bbox, r, large, NoStyle, NoStyle))
    \/ \E location \in Points : Draw(Text(<<"label">>, location, NoStyle, NoStyle))
    \/ Close

SpecDraw == Init /\ [][NextDraw]_vars

\* the first call on a document: element with every pair of style arguments
NextStyle ==
    /\ ncalls = 0
    /\ \E e \in Tags, delta \in Deltas, unspaced \in BOOLEAN, style \in Dicts,
          morestyle \in Dicts :
            Element(e, delta, unspaced, style, morestyle)

SpecStyle == Init /\ [][NextStyle]_vars

-----------------------------------------------------------------------------
(* _coord alone, on coordinates m * 10^k and 10^k - 1 plus five decimals.  *)

CoordDigits == {0, 1, 5, 9}
IntParts ==
    {m * 10^k : m \in 0..MaxMantissa, k \in 0..MaxExp}
        \cup {10^(k + 1) - 1 : k \in 0..MaxExp}
Fractions ==
    {f[1]*10000 + f[2]*1000 + f[3]*100 + f[4]*10 + f[5] :
        f \in [1..(Precision + 1) -> CoordDigits]}
CoordInputs ==
    {sg * (ip * Unit + fr) : sg \in {1, -1}, ip \in IntParts, fr \in Fractions}

InitCoord ==
    /\ self = __init__(Bbox, TRUE, <<>>, 0)
    /\ log = <<>>
    /\ call = NoCall
    /\ ncalls = 0
    /\ status = "open"
    /\ rnd \in {"even", "up", "down"}
    /\ cx \in CoordInputs
    /\ cs = <<>>
    /\ mg = NoMerge

\* cs = _coord(cx)
Coord ==
    /\ cs = <<>>
    /\ cs' = _coord(cx)
    /\ UNCHANGED <<self, log, call, ncalls, status, rnd, cx, mg>>

SpecCoord == InitCoord /\ [][Coord]_vars

-----------------------------------------------------------------------------
(* Util.merge, in src/Util.py ("Util") and in src/PADS/Util.py ("PADS").   *)
(*                                                                         *)
(* The frame mg of the generator: pc, the file impl, the interpreter       *)
(* (py3), the streams' addresses addr, the input streams ins, what is left *)
(* of each (rest), the list heads of <<item, stream>> pairs, and the items *)
(* yielded so far (out).  A stream is named by its position in ins.        *)
(*                                                                         *)
(* Python compares the pairs as tuples: by item, and for equal items by    *)
(* stream.  Python 2 orders two iterators by address; Python 3 raises      *)
(* TypeError.  heapq's functions are followed comparison by comparison; a  *)
(* result is [heap, err], err telling that a comparison raised.            *)

Less(m, a, b) == a[1] < b[1] \/ (a[1] = b[1] /\ m.addr[a[2]] < m.addr[b[2]])
Clash(m, a, b) == m.py3 /\ a[1] = b[1] /\ a[2] # b[2]

RECURSIVE siftdown(_, _, _, _, _)
\* heapq._siftdown(heap, startpos, pos), newitem being heap[pos] on entry
siftdown(m, heap, newitem, startpos, pos) ==
    IF pos > startpos
    THEN LET parentpos == (pos - 1) \div 2
             parent == heap[parentpos + 1]
         IN  IF Clash(m, newitem, parent) THEN [heap |-> heap, err |-> TRUE]
             ELSE IF Less(m, newitem, parent)
             THEN siftdown(m, [heap EXCEPT ![pos + 1] = parent], newitem,
                           startpos, parentpos)
             ELSE [heap |-> [heap EXCEPT ![pos + 1] = newitem], err |-> FALSE]
    ELSE [heap |-> [heap EXCEPT ![pos + 1] = newitem], err |-> FALSE]

RECURSIVE siftup(_, _, _, _, _)
\* heapq._siftup(heap, pos) from the hole at pos, newitem being the item moved
siftup(m, heap, newitem, startpos, pos) ==
    LET endpos == Len(heap)
        childpos == 2*pos + 1
        rightpos == childpos + 1
    IN  IF childpos < endpos
        THEN IF rightpos < endpos /\ Clash(m, heap[childpos + 1], heap[rightpos + 1])
             THEN [heap |-> heap, err |-> TRUE]
             ELSE LET c == IF rightpos < endpos
                              /\ ~Less(m, heap[childpos + 1], heap[rightpos + 1])
                           THEN rightpos ELSE childpos
                  IN  siftup(m, [heap EXCEPT ![pos + 1] = heap[c + 1]], newitem,
                             startpos, c)
        ELSE siftdown(m, [heap EXCEPT ![pos + 1] = newitem], newitem, startpos, pos)

\* heapq.heappush(heap, item)
heappush(m, heap, item) ==
    siftdown(m, Append(heap, item), item, 0, Len(heap))

\* heapq.heappop(heap): [item, heap, err]
heappop(m, heap) ==
    LET lastelt == heap[Len(heap)]
        h == SubSeq(heap, 1, Len(heap) - 1)
    IN  IF h # <<>>
        THEN LET r == siftup(m, [h EXCEPT ![1] = lastelt], lastelt, 0, 0)
             IN  [item |-> heap[1], heap |-> r.heap, err |-> r.err]
        ELSE [item |-> lastelt, heap |-> h, err |-> FALSE]

RECURSIVE sorted_insert(_, _, _)
sorted_insert(m, l, x) ==
    IF l = <<>> THEN <<x>>
    ELSE IF Less(m, x, l[1]) THEN <<x>> \o l
    ELSE <<l[1]>> \o sorted_insert(m, Tail(l), x)

RECURSIVE sorted(_, _)
\* the list after list.sort(), when no comparison raises
sorted(m, l) ==
    IF l = <<>> THEN <<>> ELSE sorted_insert(m, sorted(m, Tail(l)), l[1])

\* list.sort() raises: a sort compares every two items that end up adjacent
sort_raises(m, l) == \E i, j \in 1..Len(l) : i # j /\ Clash(m, l[i], l[j])

RECURSIVE pushstreams(_, _)
\* for s in streams: pushstream(iter(s)), from stream k on; [m, err]
pushstreams(m, k) ==
    IF k > Len(m.ins) THEN [m |-> m, err |-> FALSE]
    ELSE IF m.rest[k] = <<>> THEN pushstreams(m, k + 1)
    ELSE LET r == heappush(m, m.heads, <<m.rest[k][1], k>>)
             m2 == [m EXCEPT !.rest[k] = Tail(@), !.heads = r.heap]
         IN  IF r.err THEN [m |-> m2, err |-> TRUE] ELSE pushstreams(m2, k + 1)

MergeFrame(m2) ==
    /\ mg' = m2
    /\ UNCHANGED <<self, log, call, ncalls, status, rnd, cx, cs>>

\* src/Util.py: heads = [(next(s),s) for s in streams]; heads.sort()
\* A StopIteration that leaves the generator's body ends the generator
\* (Python 2) or becomes a RuntimeError (Python 3.7).
merge_heads ==
    /\ mg.pc = "start" /\ mg.impl = "Util"
    /\ LET n == Len(mg.ins)
           empty == {k \in 1..n : mg.ins[k] = <<>>}
           first == CHOOSE k \in empty : \A j \in empty : k <= j
           hs == [k \in 1..n |-> <<mg.ins[k][1], k>>]
       IN  IF empty # {}
           THEN MergeFrame([mg EXCEPT
                    !.rest = [k \in 1..n |-> IF k < first THEN Tail(mg.ins[k])
                                             ELSE mg.ins[k]],
                    !.pc = IF mg.py3 THEN "raised" ELSE "done"])
           ELSE MergeFrame([mg EXCEPT
                    !.rest = [k \in 1..n |-> Tail(mg.ins[k])],
                    !.heads = IF sort_raises(mg, hs) THEN hs ELSE sorted(mg, hs),
                    !.pc = IF sort_raises(mg, hs) THEN "raised" ELSE "loop"])

\* src/PADS/Util.py: for s in streams: pushstream(iter(s))
merge_pushstreams ==
    /\ mg.pc = "start" /\ mg.impl = "PADS"
    /\ LET r == pushstreams(mg, 1)
       IN  MergeFrame([r.m EXCEPT !.pc = IF r.err THEN "raised" ELSE "loop"])

\* one turn of "while heads": pop, yield, and push the stream's next item
\* (src/Util.py lines 36-43, src/PADS/Util.py lines 44-47)
merge_loop ==
    /\ mg.pc = "loop"
    /\ IF mg.heads = <<>> THEN MergeFrame([mg EXCEPT !.pc = "done"])
       ELSE LET p == heappop(mg, mg.heads)
                k == p.item[2]
                m1 == [mg EXCEPT !.heads = p.heap, !.out = Append(@, p.item[1])]
            IN  IF p.err THEN MergeFrame([mg EXCEPT !.pc = "raised"])
                ELSE IF m1.rest[k] = <<>> THEN MergeFrame(m1)
                ELSE LET r == heappush(m1, m1.heads, <<m1.rest[k][1], k>>)
                     IN  MergeFrame([m1 EXCEPT !.rest[k] = Tail(@),
                                               !.heads = r.heap,
                                               !.pc = IF r.err THEN "raised" ELSE "loop"])

SortedSeqs ==
    {q \in UNION {[1..n -> 0..MaxItem] : n \in 0..MaxStreamLen} :
        \A i \in 1..(Len(q) - 1) : q[i] <= q[i + 1]}

Addresses(n) == {a \in [1..n -> 1..n] : \A i, j \in 1..n : a[i] = a[j] => i = j}

InitMerge ==
    /\ self = __init__(Bbox, TRUE, <<>>, 0)
    /\ log = <<>>
    /\ call = NoCall
    /\ ncalls = 0
    /\ status = "open"
    /\ rnd = "even"
    /\ cx = 0
    /\ cs = <<>>
    /\ \E n \in 0..MaxStreams :
       \E ins \in [1..n -> SortedSeqs], addr \in Addresses(n),
          impl \in {"Util", "PADS"}, py3 \in BOOLEAN :
            mg = [pc |-> "start", impl |-> impl, py3 |-> py3, addr |-> addr,
                  ins |-> ins, rest |-> ins, heads |-> <<>>, out |-> <<>>]

NextMerge == merge_heads \/ merge_pushstreams \/ merge_loop

SpecMerge == InitMerge /\ [][NextMerge]_vars

-----------------------------------------------------------------------------
(* Reading the stream and the history.                                     *)

RECURSIVE LeadingSpaces(_)
\* the number of spaces a written string starts with
LeadingSpaces(w) ==
    IF w # <<>> /\ w[1] = " " THEN 1 + LeadingSpaces(Tail(w)) ELSE 0

Has(w, tok) == \E i \in 1..Len(w) : w[i] = tok

\* the first position of token tok in w at or after position from
IndexFrom(w, tok, from) ==
    CHOOSE i \in from..Len(w) : w[i] = tok /\ \A j \in from..(i - 1) : w[j] # tok

\* the tokens of w between the first token a and the next token b
Between(w, a, b) ==
    LET i == IndexFrom(w, a, 1)
        j == IndexFrom(w, b, i + 1)
    IN  SubSeq(w, i + 1, j - 1)

RECURSIVE ParseItems(_)
\* k : v ; k : v ... as the sequence of <<k, v>>
ParseItems(t) ==
    IF Len(t) < 3 THEN <<>>
    ELSE <<<<t[1], t[3]>>>> \o ParseItems(SubSeq(t, 5, Len(t)))

\* the items of the style attribute of a written tag
StyleWritten(w) == ParseItems(Between(w, " style=\"", "\""))

lookup(d, k) == (CHOOSE i \in 1..Len(d) : d[i][1] = k)

Written == self.stream[Len(self.stream)]

Opens(l) == Cardinality({i \in 1..Len(l) : l[i].delta > 0})
Closes(l) == Cardinality({i \in 1..Len(l) : l[i].delta < 0})

RECURSIVE Stack(_, _)
\* the open tags (positions in l) not closed after the first k calls of l; a
\* closing tag closes the most recent open one, if there is one
Stack(l, k) ==
    IF k = 0 THEN <<>>
    ELSE LET st == Stack(l, k - 1)
         IN  IF l[k].delta > 0 THEN Append(st, k)
             ELSE IF l[k].delta < 0 /\ st # <<>> THEN SubSeq(st, 1, Len(st) - 1)
             ELSE st

\* the open tag that call k of l is written in (0: none)
Encl(l, k) ==
    LET st == Stack(l, k - 1) IN IF st = <<>> THEN 0 ELSE st[Len(st)]

\* every closing tag among the first k calls closed an open tag of its name
Nested(l, k) ==
    \A j \in 1..k :
        l[j].delta < 0 => Encl(l, j) # 0 /\ l[Encl(l, j)].name = l[j].name

\* every closing tag among the first k calls had an open tag to close
NoStray(l, k) == \A j \in 1..k : l[j].delta < 0 => Encl(l, j) # 0

WellNested(l) == Nested(l, Len(l)) /\ Stack(l, Len(l)) = <<>>

Lead(k) == LeadingSpaces(self.stream[log[k].at])

\* the calls between construction and close()
Inner == SubSeq(log, 2, Len(log) - 1)

ShapeOps == {"circle", "rectangle", "polygon", "polyline", "polycurve",
             "segment", "arc", "text"}

-----------------------------------------------------------------------------
(* C1: after close(): if the calls between construction and close() were   *)
(* properly nested with matched counts, close() returned; if they held one *)
(* open more than closes, or one close more than opens, it raised.         *)
C1_CloseBalanced ==
    status # "open" =>
        /\ WellNested(Inner) => status = "closed"
        /\ Opens(Inner) - Closes(Inner) \in {1, -1} => status = "raised"

C1_Witness ==
    /\ status = "raised"
    /\ Opens(Inner) - Closes(Inner) = -1

(* C2, as claimed: if close() returned without raising, every closing tag  *)
(* written closed the most recent still-open tag, and none is left open.   *)
C2_Original == status = "closed" => WellNested(log)

(* C2, amended: close() raises exactly when the number of opening tags     *)
(* written (the root's included) differs from the number of closing tags   *)
(* written (close()'s included); the order of the calls is not checked.    *)
C2_RaisesIffCountsDiffer ==
    status # "open" => (status = "raised" <=> Opens(log) # Closes(log))

C2_Witness ==
    /\ status = "closed"
    /\ ~Nested(log, Len(log))
    /\ call.op = "close"
    /\ \E i \in 2..(Len(log) - 1) : log[i].delta # 0

(* C3, as claimed: before close(), nesting is non-negative and is the      *)
(* number of open tags not yet closed.                                     *)
C3_Original ==
    status = "open" =>
        /\ self.nesting >= 0
        /\ self.nesting = Len(Stack(log, Len(log)))

(* C3, amended: nesting is the number of opening tags written minus the    *)
(* number of closing tags written; it is non-negative and the number of    *)
(* open tags not yet closed as long as every closing tag had an open tag   *)
(* to close.                                                               *)
C3_NestingIsBalance ==
    /\ self.nesting = Opens(log) - Closes(log)
    /\ NoStray(log, Len(log)) =>
            /\ self.nesting >= 0
            /\ self.nesting = Len(Stack(log, Len(log)))

C3_Witness ==
    /\ status = "open"
    /\ self.nesting < 0
    /\ ~NoStray(log, Len(log))

(* C4: rectangle(p, q) writes a rect with x = min(p.x, q.x),               *)
(* y = min(p.y, q.y), width = |p.x - q.x| and height = |p.y - q.y|, each   *)
(* formatted by _coord.                                                    *)
C4_RectangleGeometry ==
    call.op = "rectangle" =>
        /\ Between(Written, "rect x=\"", "\" y=\"")
                = _coord(min(real(call.p), real(call.q)))
        /\ Between(Written, "\" y=\"", "\" width=\"")
                = _coord(min(imag(call.p), imag(call.q)))
        /\ Between(Written, "\" width=\"", "\" height=\"")
                = _coord(abs(real(call.p) - real(call.q)))
        /\ Between(Written, "\" height=\"", "\"")
                = _coord(abs(imag(call.p) - imag(call.q)))


\* the value of a digit character
DigitValue(c) == CHOOSE d \in 0..9 : DigitChars[d + 1] = c

RECURSIVE Number(_)
\* the natural number a string of digits denotes
Number(ds) ==
    IF ds = <<>> THEN 0
    ELSE 10 * Number(SubSeq(ds, 1, Len(ds) - 1)) + DigitValue(ds[Len(ds)])

\* the part of a decimal string before its point, sign included
IntegerPart(t) == IF Has(t, ".") THEN SubSeq(t, 1, IndexFrom(t, ".", 1) - 1) ELSE t

\* float(t) in fixed-point units, t a decimal of at most Precision decimals
Parse(t) ==
    LET neg == t # <<>> /\ t[1] = "-"
        u == IF neg THEN Tail(t) ELSE t
        ip == IntegerPart(u)
        fr == SubSeq(u, Len(ip) + 2, Len(u))
        val == Number(ip) * Unit + Number(fr) * 10^(Precision + 1 - Len(fr))
    IN  IF neg THEN -val ELSE val

(* C5: _coord(v) parses back to within 1e-4 of v, does not end in ".",     *)
(* does not end in "0" after a decimal point, and keeps every digit that   *)
(* "%.4f" wrote before the point.                                          *)
C5_CoordRoundTrip ==
    cs # <<>> =>
        /\ abs(Parse(cs) - cx) <= Unit \div 10^Precision
        /\ cs[Len(cs)] # "."
        /\ Has(cs, ".") => cs[Len(cs)] # "0"
        /\ IntegerPart(cs) = IntegerPart(Fixed4(cx))

C5_Witness ==
    /\ cx = 100 * Unit
    /\ cs = <<"1", "0", "0">>


(* C6: element writes one style item per key of style or morestyle, with   *)
(* morestyle's value for a key of both, and no style attribute when        *)
(* neither has a key.                                                      *)
C6_StyleMerge ==
    call.op = "element" =>
        LET U == keys(call.style) \cup keys(call.morestyle)
            items == IF Has(Written, " style=\"") THEN StyleWritten(Written) ELSE <<>>
        IN  /\ Has(Written, " style=\"") <=> U # {}
            /\ Len(items) = Cardinality(U)
            /\ keys(items) = U
            /\ \A i \in 1..Len(items) :
                  items[i][2] =
                      IF items[i][1] \in keys(call.morestyle)
                      THEN call.morestyle[lookup(call.morestyle, items[i][1])][2]
                      ELSE call.style[lookup(call.style, items[i][1])][2]

C6_Witness ==
    /\ call.op = "element"
    /\ call.style = <<<<"fill", "red">>, <<"stroke", "red">>>>
    /\ call.morestyle = <<<<"opacity", "blue">>, <<"fill", "blue">>>>
    /\ StyleWritten(Written)
            = <<<<"fill", "blue">>, <<"stroke", "red">>, <<"opacity", "blue">>>>

\* calls i and j of the history are an opening tag and the closing tag that
\* closed it, in a sequence properly nested up to j
Matched(i, j) ==
    /\ i \in 1..Len(log) /\ j \in 1..Len(log)
    /\ log[j].delta < 0
    /\ Nested(log, j)
    /\ Encl(log, j) = i

\* call k is a standalone tag written directly inside open tag i
StandaloneIn(k, i) ==
    /\ i \in 1..Len(log) /\ k \in 1..Len(log)
    /\ log[k].delta = 0
    /\ Nested(log, k)
    /\ Encl(log, k) = i

(* C7, as claimed: in a properly nested sequence of calls, a non-unspaced  *)
(* opening tag written at nesting depth d and the closing tag matching it  *)
(* both start with indentation + 2*d spaces; a standalone tag directly     *)
(* inside starts with indentation + 2*(d+1) spaces.                        *)
C7_Original ==
    \A i \in 1..Len(log) :
        log[i].delta > 0 /\ ~log[i].unspaced /\ Nested(log, i) =>
            /\ Lead(i) = self.indentation + 2 * log[i].depth
            /\ \A j \in 1..Len(log) :
                  Matched(i, j) => Lead(j) = self.indentation + 2 * log[i].depth
            /\ \A k \in 1..Len(log) :
                  StandaloneIn(k, i) =>
                      Lead(k) = self.indentation + 2 * (log[i].depth + 1)

(* C7, amended: the same, for a matching closing tag that is not unspaced  *)
(* either; an unspaced closing tag starts with no space.                   *)
C7_MatchedIndentation ==
    \A i \in 1..Len(log) :
        log[i].delta > 0 /\ ~log[i].unspaced /\ Nested(log, i) =>
            /\ Lead(i) = self.indentation + 2 * log[i].depth
            /\ \A j \in 1..Len(log) :
                  Matched(i, j) =>
                      Lead(j) = IF log[j].unspaced THEN 0
                                ELSE self.indentation + 2 * log[i].depth
            /\ \A k \in 1..Len(log) :
                  StandaloneIn(k, i) =>
                      Lead(k) = self.indentation + 2 * (log[i].depth + 1)

C7_Witness ==
    /\ self.indentation = 1
    /\ \E i, j, k \in 1..Len(log) :
          /\ Matched(i, j) /\ StandaloneIn(k, i)
          /\ ~log[i].unspaced /\ ~log[j].unspaced
          /\ log[i].depth = 1
          /\ Lead(i) = 3 /\ Lead(j) = 3 /\ Lead(k) = 5

(* C8, as claimed: a tag written by element with unspaced true starts with *)
(* no space, whatever delta is.                                            *)
C8_Original ==
    \A k \in 1..Len(log) : log[k].unspaced => Lead(k) = 0

(* C8, amended: with unspaced true a closing tag (delta < 0) starts with   *)
(* no space; an opening or standalone tag (delta >= 0) is indented like a  *)
(* spaced one, by indentation + 2*nesting spaces (none if that is          *)
(* negative), and an opening tag ends without a newline.                   *)
C8_UnspacedClose ==
    \A k \in 1..Len(log) :
        log[k].unspaced =>
            LET w == self.stream[log[k].at]
                n == self.indentation + 2 * log[k].depth
            IN  /\ log[k].delta < 0 => Lead(k) = 0
                /\ log[k].delta >= 0 => Lead(k) = IF n > 0 THEN n ELSE 0
                /\ log[k].delta > 0 <=> w[Len(w)] # "\n"

C8_Witness ==
    /\ call.op = "text"
    /\ \E i, j \in 1..Len(log) :
          /\ Matched(i, j)
          /\ log[i].unspaced /\ log[j].unspaced
          /\ Lead(i) = 4 /\ Lead(j) = 0

\* the history without the calls that shape methods made
RECURSIVE Structural(_)
Structural(l) ==
    IF l = <<>> THEN <<>>
    ELSE (IF l[1].name \in {"svg", "g", "a"} THEN <<l[1]>> ELSE <<>>)
            \o Structural(Tail(l))

(* C9: a shape method (circle, rectangle, polygon, polyline, polycurve,    *)
(* segment, arc, text) leaves nesting as it was; and whether close()       *)
(* raises is decided by the other calls alone.                             *)
C9_ShapesKeepNesting ==
    /\ [][(ncalls' = ncalls + 1 /\ call'.op \in ShapeOps)
            => self'.nesting = self.nesting]_vars
    /\ [](status # "open" =>
            (status = "raised" <=> Opens(Structural(log)) # Closes(Structural(log))))

C9_Witness ==
    /\ call.op = "text"
    /\ ncalls = 2
    /\ self.nesting = 2


RECURSIVE Flatten(_)
Flatten(ss) == IF ss = <<>> THEN <<>> ELSE ss[1] \o Flatten(Tail(ss))

Count(q, x) == Cardinality({i \in 1..Len(q) : q[i] = x})

\* out holds every item of every input stream exactly once, in order
MergedRight(m) ==
    /\ \A i \in 1..(Len(m.out) - 1) : m.out[i] <= m.out[i + 1]
    /\ \A x \in 0..MaxItem : Count(m.out, x) = Count(Flatten(m.ins), x)

(* C10: merge of sorted streams, some possibly empty or sharing values,    *)
(* ends without raising, having yielded every item of every stream once,   *)
(* in nondecreasing order.                                                 *)
C10_MergeSorted ==
    mg.pc \in {"done", "raised"} => mg.pc = "done" /\ MergedRight(mg)

\* what holds: src/PADS/Util.py under Python 2, and under Python 3 when no
\* two streams share a value
C10_PadsMergeWithoutTies ==
    (/\ mg.pc \in {"done", "raised"}
     /\ mg.impl = "PADS"
     /\ \/ ~mg.py3
        \/ \A i, j \in 1..Len(mg.ins) :
              i # j => \A a \in 1..Len(mg.ins[i]), b \in 1..Len(mg.ins[j]) :
                          mg.ins[i][a] # mg.ins[j][b])
    => mg.pc = "done" /\ MergedRight(mg)

=============================================================================
